---- MODULE Spec2Model ----
(***************************************************************************)
(* The authorization orchestrator of frontify-authenticator                *)
(* (src/src/index.ts, first module of the file), its Popup controller      *)
(* (src/src/Popup.ts) and the OAuth protocol functions                     *)
(* (src/unnamed/part_005), as a state machine.                             *)
(*                                                                         *)
(* The host is one UI thread: every action below is one task of the event  *)
(* loop (a call of authorize(), a window message, a tick of the            *)
(* closed-window interval, a timeout, the completion of a network call or  *)
(* of the digest), run to completion together with the promise reactions   *)
(* it triggers.                                                            *)
(*                                                                         *)
(* Strings that the code transforms (domains) are sequences of one-letter  *)
(* strings; a missing or empty domain is the empty sequence.               *)
(***************************************************************************)
EXTENDS Integers, Sequences, FiniteSets, TLC

\* Number of authorize() calls and of authenticate() invocations explored.
MaxCalls == 3
MaxAuth == 2

VARIABLES
    POPUP_STATE,        \* index.ts:25  POPUP_STATE.open
    popup,              \* index.ts:29  the module-level Popup (0: unassigned)
    token,              \* index.ts:30  the module-level Token
    domainPopUpTimeout, \* index.ts:31  the last domain timer (NoTimer: none)
    authTimeout,        \* index.ts:32  the last authorization timer
    timers,             \* the armed setTimeout timers, in arming order
    popups,             \* the Popup objects, one per authorize() call
    configs,            \* the configuration object of each authorize() call
    promises,           \* the promise returned by each authorize() call
    auths,              \* the authenticate() invocations
    nCalls,             \* authorize() calls made so far
    nAuth,              \* authenticate() invocations made so far
    tokenCall,          \* the refresh() or revoke() call in flight, if any
    normalization,      \* a string and what normalizeDomain makes of it
    probes              \* callbacks a host registers on a Popup of its own

vars == <<POPUP_STATE, popup, token, domainPopUpTimeout, authTimeout, timers,
          popups, configs, promises, auths, nCalls, nAuth, tokenCall,
          normalization, probes>>

(***************************************************************************)
(* Strings                                                                 *)
(***************************************************************************)
EmptyDomain == << >>
\* The value of a domain property that is absent or was deleted.
undefined == <<"undefined">>
\* !configuration.domain (index.ts:54)
Falsy(d) == d \in {undefined, EmptyDomain}
HTTP == <<"h", "t", "t", "p", ":", "/", "/">>
HTTPS == <<"h", "t", "t", "p", "s", ":", "/", "/">>

StartsWith(s, p) == Len(s) >= Len(p) /\ SubSeq(s, 1, Len(p)) = p

\* String.replace(/^(http(?:s)?:\/\/)/, ''): one leading scheme is removed.
StripScheme(d) ==
    IF StartsWith(d, HTTPS) THEN SubSeq(d, Len(HTTPS) + 1, Len(d))
    ELSE IF StartsWith(d, HTTP) THEN SubSeq(d, Len(HTTP) + 1, Len(d))
    ELSE d

\* A replace(/\/$/, '') in its place: one trailing slash is removed.
StripOneSlash(d) ==
    IF Len(d) > 0 /\ d[Len(d)] = "/" THEN SubSeq(d, 1, Len(d) - 1) ELSE d

\* String.replace(/\/+$/, ''): all trailing slashes are removed.
RECURSIVE StripTrailingSlashes(_)
StripTrailingSlashes(d) ==
    IF Len(d) > 0 /\ d[Len(d)] = "/"
    THEN StripTrailingSlashes(SubSeq(d, 1, Len(d) - 1))
    ELSE d

normalizeDomain(d) ==
    LET normalizedDomain == StripScheme(d)
    IN  IF Len(normalizedDomain) > 0 /\ normalizedDomain[Len(normalizedDomain)] = "/"
        THEN StripTrailingSlashes(normalizedDomain)
        ELSE normalizedDomain

\* The domains a caller configures and the domains the finder page posts.
ConfigDomains == { undefined, HTTPS \o <<"a", "/">> }
MessageDomains == { <<"b">>, HTTP \o <<"c", "/", "/">> }

(***************************************************************************)
(* Values                                                                  *)
(***************************************************************************)
DOMAIN_WINDOW_DEFAULT_URL == [page |-> "finder", domain |-> EmptyDomain, session_id |-> 0]
BlankUrl == [page |-> "about:blank", domain |-> EmptyDomain, session_id |-> 0]
BEARER_TOKEN_TYPE == "Bearer"

NoToken ==
    [bearerToken |-> [tokenType |-> "", expiresIn |-> 0, accessToken |-> 0,
                      refreshToken |-> 0, domain |-> EmptyDomain],
     clientId |-> 0, scopes |-> << >>]

\* expires_in values the token endpoint answers with.
ExpiresInValues == {3600}

\* Listener slots of a Popup: the names the registration methods write and
\* the names call() reads.
ListenerNames == {"domain", "aborted", "success", "canceled", "cancelled"}
NoCallback == [fn |-> "none", id |-> 0]
NoListeners == [n \in ListenerNames |-> NoCallback]

NoTimer == [kind |-> "none", id |-> 0]
DomainTimer(a) == [kind |-> "domain", id |-> a]
AuthTimer(k) == [kind |-> "auth", id |-> k]

NoPopup ==
    [win |-> "none", interval |-> FALSE, registered |-> FALSE,
     listeners |-> NoListeners, domain |-> EmptyDomain, location |-> BlankUrl,
     domainError |-> FALSE]

NoConfig == [domain |-> undefined, clientId |-> 0, scopes |-> << >>,
             input |-> undefined]

NoPromise == [state |-> "none", code |-> "", token |-> NoToken]

\* Values that travel in requests: the code verifier of invocation k, its
\* S256 digest, the session key, the authorization code, the client id.
NoTerm == [kind |-> "none", id |-> 0]
Term(kind, id) == [kind |-> kind, id |-> id]
\* getRandomString(CODE_VERIFIER_LENGTH) for invocation k (part_005:46).
getRandomString(k) == Term("verifier", k)
\* computeChallengeCode: base64 of the SHA-256 of the verifier (part_005:37-42).
computeChallengeCode(codeVerifier) == Term("S256", codeVerifier.id)

NoAuth ==
    [attempt |-> 0, popUp |-> 0, via |-> "none", pc |-> "unused",
     sessionId |-> 0, code |-> 0, error |-> "",
     initDomain |-> undefined, urlDomain |-> undefined,
     pollDomain |-> undefined, exchDomain |-> undefined,
     msgDomain |-> undefined, response |-> [access_token |-> 0, expires_in |-> 0, refresh_token |-> 0],
     result |-> NoToken, successSeen |-> FALSE, cancelSeen |-> FALSE,
     cause |-> "", codeVerifier |-> NoTerm, codeChallenge |-> NoTerm, sent |-> << >>]

(***************************************************************************)
(* The state as one record, so that the statements of a handler compose.  *)
(***************************************************************************)
State ==
    [open |-> POPUP_STATE, popup |-> popup, token |-> token,
     domainPopUpTimeout |-> domainPopUpTimeout, authTimeout |-> authTimeout,
     timers |-> timers, popups |-> popups, configs |-> configs,
     promises |-> promises, auths |-> auths, nCalls |-> nCalls, nAuth |-> nAuth,
     tokenCall |-> tokenCall, normalization |-> normalization,
     probes |-> probes]

Becomes(s) ==
    /\ POPUP_STATE' = s.open
    /\ popup' = s.popup
    /\ token' = s.token
    /\ domainPopUpTimeout' = s.domainPopUpTimeout
    /\ authTimeout' = s.authTimeout
    /\ timers' = s.timers
    /\ popups' = s.popups
    /\ configs' = s.configs
    /\ promises' = s.promises
    /\ auths' = s.auths
    /\ nCalls' = s.nCalls
    /\ nAuth' = s.nAuth
    /\ tokenCall' = s.tokenCall
    /\ normalization' = s.normalization
    /\ probes' = s.probes

\* No refresh() or revoke() under way; no string handed to normalizeDomain.
NoTokenCall == [op |-> "none", input |-> NoToken]
NoNormalization == [input |-> EmptyDomain, once |-> EmptyDomain,
                    twice |-> EmptyDomain, applied |-> 0]

\* The registration methods of a Popup, and a host that has registered
\* nothing: latest[via] counts the callbacks passed to method via, the n-th
\* call passing callback n, so that it also names the last one (0: none);
\* event is the last message or closure the Popup handled, invoked the
\* callbacks it ran for it, uncaught whether its handler threw.
Methods == {"onDomain", "onAborted", "onSuccess", "onCancelled"}
NoProbes == [latest |-> [via \in Methods |-> 0], event |-> "none",
             invoked |-> << >>, uncaught |-> FALSE]

InitOrchestrator ==
    /\ POPUP_STATE = FALSE
    /\ popup = 0
    /\ token = NoToken
    /\ domainPopUpTimeout = NoTimer
    /\ authTimeout = NoTimer
    /\ timers = << >>
    /\ popups = [p \in 1..MaxCalls |-> NoPopup]
    /\ configs = [a \in 1..MaxCalls |-> NoConfig]
    /\ promises = [a \in 1..MaxCalls |-> NoPromise]
    /\ auths = [k \in 1..MaxAuth |-> NoAuth]
    /\ nCalls = 0
    /\ nAuth = 0
    /\ tokenCall = NoTokenCall
    /\ probes = NoProbes

Init == InitOrchestrator /\ normalization = NoNormalization

(***************************************************************************)
(* Timers (setTimeout / clearTimeout)                                      *)
(***************************************************************************)
SetTimeout(s, t) == [s EXCEPT !.timers = Append(@, t)]
ClearTimeout(s, t) == [s EXCEPT !.timers = SelectSeq(@, LAMBDA x : x # t)]

(***************************************************************************)
(* Popup (src/src/Popup.ts)                                                *)
(***************************************************************************)
\* new Popup(configuration): the window is open, the message listener is
\* registered and the closed-window interval runs.
NewPopup ==
    [NoPopup EXCEPT !.win = "open", !.interval = TRUE, !.registered = TRUE]

\* A close() whose unregistering toggles the registration of the listener.
CloseToggles(s, p) ==
    [s EXCEPT !.popups[p] =
        [@ EXCEPT !.listeners = NoListeners,
                  !.interval = FALSE,
                  !.registered = ~@,
                  !.win = IF @ = "open" THEN "closed" ELSE @]]

\* A close() that leaves the closed-window interval running.
CloseKeepsInterval(s, p) ==
    [s EXCEPT !.popups[p] =
        [@ EXCEPT !.listeners = NoListeners,
                  !.registered = FALSE,
                  !.win = IF @ = "open" THEN "closed" ELSE @]]

\* Popup.close()
Close(s, p) ==
    [s EXCEPT !.popups[p] =
        [@ EXCEPT !.listeners = NoListeners,
                  !.interval = FALSE,
                  !.registered = FALSE,
                  !.win = IF @ = "open" THEN "closed" ELSE @]]

\* An onAborted that keeps the callback it already holds.
onAbortedKeepsFirst(s, p, cb) ==
    IF s.popups[p].listeners["aborted"].fn # "none" THEN s
    ELSE [s EXCEPT !.popups[p].listeners["aborted"] = cb]

\* Popup.onDomain / onAborted / onSuccess / onCancelled
onDomain(s, p, cb) == [s EXCEPT !.popups[p].listeners["domain"] = cb]

onAborted(s, p, cb) == [s EXCEPT !.popups[p].listeners["aborted"] = cb]

onSuccess(s, p, cb) == [s EXCEPT !.popups[p].listeners["success"] = cb]

onCancelled(s, p, cb) == [s EXCEPT !.popups[p].listeners["canceled"] = cb]

\* A navigateToUrl that replaces the location whatever the handle is.
navigateToUrlUnchecked(popUp, url) ==
    [popUp |-> [popUp EXCEPT !.location = url], error |-> ""]

\* Popup.navigateToUrl(url) on the Popup object popUp (Popup.ts:136-143):
\* the object after the call and the code of the error thrown ("": none).
navigateToUrl(popUp, url) ==
    IF popUp.win = "open"
    THEN [popUp |-> [popUp EXCEPT !.location = url], error |-> ""]
    ELSE [popUp |-> popUp, error |-> "ERR_AUTH_POPUP_CLOSED"]

\* Popup.navigateToUrl: whether it throws, and the popup after it.
CanNavigate(s, p) == navigateToUrl(s.popups[p], BlankUrl).error = ""
NavigateToUrl(s, p, url) == [s EXCEPT !.popups[p] = navigateToUrl(@, url).popUp]

\* Popup.setDomain
setDomain(s, p, d) == [s EXCEPT !.popups[p].domain = d]

(***************************************************************************)
(* authorize(): how its promise settles (index.ts:55-72)                   *)
(***************************************************************************)
\* An authorize() that returns the module-level token when one is there
\* already, whatever its own authentication returned.
ResolveAuthorizeKeepsToken(s, a, result) ==
    IF s.promises[a].state # "pending" THEN s
    ELSE LET s1 == [s EXCEPT !.open = FALSE,
                             !.token = IF @ # NoToken THEN @ ELSE result]
         IN  IF s1.token = NoToken
             THEN [s1 EXCEPT !.promises[a].state = "rejected",
                             !.promises[a].code = "ERR_AUTH_NO_TOKEN"]
             ELSE [s1 EXCEPT !.promises[a].state = "resolved",
                             !.promises[a].token = s1.token]

\* .then((result) => { POPUP_STATE.open = false; token = result; }), then
\* "if (!token) throw ERR_AUTH_NO_TOKEN; return token".  A promise settles
\* once: a later resolve or reject of a settled promise does nothing.
ResolveAuthorize(s, a, result) ==
    IF s.promises[a].state # "pending" THEN s
    ELSE LET s1 == [s EXCEPT !.open = FALSE, !.token = result]
         IN  IF s1.token = NoToken
             THEN [s1 EXCEPT !.promises[a].state = "rejected",
                             !.promises[a].code = "ERR_AUTH_NO_TOKEN"]
             ELSE [s1 EXCEPT !.promises[a].state = "resolved",
                             !.promises[a].token = s1.token]

RejectAuthorize(s, a, code) ==
    IF s.promises[a].state # "pending" THEN s
    ELSE [s EXCEPT !.promises[a].state = "rejected", !.promises[a].code = code]

(***************************************************************************)
(* authenticate() (index.ts:89-107) and the OAuth functions it awaits      *)
(***************************************************************************)
\* Invocation k hands data to the outside: a request to an endpoint, the URL
\* the popup is sent to, or a message posted to the popup window.
Send(s, k, to, fields) ==
    [s EXCEPT !.auths[k].sent = Append(@, [to |-> to, fields |-> fields])]

\* A catch of the onDomain callback that rejects whatever the error is.
OnDomainCatchRejects(s, a, thrown) == RejectAuthorize(s, a, "undefined")

\* The .catch of the onDomain callback of call a (index.ts:136-142), entered
\* with the error authenticate() threw: reject() passes no reason.
OnDomainCatch(s, a, thrown) ==
    IF thrown # "ERR_AUTH_SESSION"
    THEN RejectAuthorize(s, a, "undefined")
    ELSE [s EXCEPT !.configs[a].domain = undefined]

\* The catch block of authenticate() for invocation k, entered with the
\* error code err, followed by the reaction of the caller: authorize()
\* (index.ts:60) or the onDomain callback (index.ts:136-142).
AuthenticateCatch(s, k, err) ==
    LET a == s.auths[k].attempt
        p == s.auths[k].popUp
        thrown == IF err = "ERR_AUTH_COMPUTE_URL" THEN "ERR_AUTH_SESSION" ELSE "ERR_AUTH"
        s0 == IF s.popups[p].win = "none" THEN s
              ELSE Send(s, k, "popup", {Term("domainError", 0)})
        s1 == [s0 EXCEPT !.popups[p].domainError = (@ \/ s.popups[p].win = "open")]
        s2 == IF err = "ERR_AUTH_COMPUTE_URL" THEN s1 ELSE [s1 EXCEPT !.open = FALSE]
        s3 == [s2 EXCEPT !.auths[k].pc = "failed", !.auths[k].error = thrown,
                         !.auths[k].cause = err]
    IN  IF s.auths[k].via = "direct"
        THEN RejectAuthorize(s3, a, thrown)
        ELSE OnDomainCatch(s3, a, thrown)

\* authenticate(configuration, popUp) up to its first suspension: the code
\* verifier is drawn and its digest requested (part_005:46-47).
Authenticate(s, a, p, via) ==
    LET k == s.nAuth + 1
    IN  [s EXCEPT !.nAuth = k,
                  !.auths[k] = [NoAuth EXCEPT !.attempt = a, !.popUp = p,
                                              !.via = via, !.pc = "digest",
                                              !.codeVerifier = getRandomString(k)]]

\* initializeOauthSession(config.domain) is called once the digest is there
\* (part_005:48, 68-73).  A missing domain makes normalizeDomain throw.
InitializeOauthSession(s, k) ==
    LET d == s.configs[s.auths[k].attempt].domain
    IN  IF d = undefined
        THEN AuthenticateCatch(s, k, "ERR_AUTH_COMPUTE_URL")
        ELSE Send([s EXCEPT !.auths[k].pc = "init",
                            !.auths[k].codeChallenge =
                                computeChallengeCode(s.auths[k].codeVerifier),
                            !.auths[k].initDomain = normalizeDomain(d)],
                  k, "create/session", {})

\* openAuthPopUp(url, popUp) (index.ts:162-211) for invocation k.
OpenAuthPopUp(s, k, url) ==
    LET p == s.auths[k].popUp
        a == s.auths[k].attempt
    IN  IF ~CanNavigate(s, p)
        THEN AuthenticateCatch(NavigateToUrl(s, p, url), k,
                               navigateToUrl(s.popups[p], url).error)
        ELSE LET s1 == NavigateToUrl(s, p, url)
                 s2 == SetTimeout([s1 EXCEPT !.authTimeout = AuthTimer(k)], AuthTimer(k))
                 s3 == onAborted(s2, p, [fn |-> "authAborted", id |-> k])
                 s4 == onSuccess(s3, p, [fn |-> "authSuccess", id |-> k])
                 s5 == onCancelled(s4, p, [fn |-> "authCancelled", id |-> k])
             IN  [s5 EXCEPT !.auths[k].pc = "wait"]

\* What /api/oauth/create/session can answer: a non-2xx status, a 2xx body
\* without data, a 2xx body whose data has no key, a 2xx body with a key.
SessionAnswers == {"non2xx", "noData", "noKey", "key"}

\* What initializeOauthSession makes of the answer (part_005:70-78) and
\* computeAuthorizationUrl of its result, "|| ''" (part_005:48): the session
\* key of invocation k, or 0 for the empty string; httpCall throws on a
\* non-2xx status (Utils.ts:33-39) and session?.data.key on missing data.
initializeOauthSessionReturn(answer, k) ==
    CASE answer = "non2xx" -> [error |-> "ERR_SESSION", key |-> 0]
      [] answer = "noData" -> [error |-> "ERR_SESSION", key |-> 0]
      [] answer = "noKey" -> [error |-> "", key |-> 0]
      [] answer = "key" -> [error |-> "", key |-> k]

\* toUrlParameter leaves out the parameters whose value is empty
\* (Utils.ts:16-23): the session_id of an empty session key.
SessionIdParam(sessionId) ==
    IF sessionId = 0 THEN {} ELSE {Term("session_id", sessionId)}

\* The query parameters of the authorization URL that carry values
\* (part_005:51-59).
AuthorizationUrlParamsPlain(clientId, codeVerifier, codeChallenge, sessionId) ==
    {Term("client_id", clientId), codeVerifier} \cup SessionIdParam(sessionId)

AuthorizationUrlParams(clientId, codeVerifier, codeChallenge, sessionId) ==
    {Term("client_id", clientId), codeChallenge} \cup SessionIdParam(sessionId)

\* computeAuthorizationUrl after the session call answered with key
\* (part_005:48-62), then openAuthPopUp (index.ts:92).
ComputeAuthorizationUrl(s, k, key) ==
    LET d == s.configs[s.auths[k].attempt].domain
    IN  IF d = undefined
        THEN AuthenticateCatch(s, k, "ERR_AUTH_COMPUTE_URL")
        ELSE OpenAuthPopUp(
                 Send([s EXCEPT !.auths[k].sessionId = key,
                                !.auths[k].urlDomain = normalizeDomain(d)],
                      k, "authorize",
                      AuthorizationUrlParams(
                          s.configs[s.auths[k].attempt].clientId,
                          s.auths[k].codeVerifier, s.auths[k].codeChallenge, key)),
                 k,
                 [page |-> "authorize", domain |-> normalizeDomain(d), session_id |-> key])

\* pollOauthSession(configuration, sessionId) is called (part_005:81-93).
PollOauthSession(s, k) ==
    LET d == s.configs[s.auths[k].attempt].domain
    IN  IF d = undefined
        THEN AuthenticateCatch(s, k, "ERR_AUTH_POLL")
        ELSE Send([s EXCEPT !.auths[k].pc = "poll",
                            !.auths[k].pollDomain = normalizeDomain(d)],
                  k, "poll", {Term("session_id", s.auths[k].sessionId)})

\* getAccessToken(configuration, code, codeVerifier) is called
\* (part_005:104-122): the domain is normalized before the request.
GetAccessTokenCall(s, k, code) ==
    LET d == s.configs[s.auths[k].attempt].domain
    IN  IF d = undefined
        THEN AuthenticateCatch(s, k, "ERR_AUTH_ACCESS_TOKEN")
        ELSE Send([s EXCEPT !.auths[k].pc = "exchange",
                            !.auths[k].code = code,
                            !.auths[k].exchDomain = normalizeDomain(d)],
                  k, "accesstoken",
                  {Term("code", code), s.auths[k].codeVerifier,
                   Term("client_id", s.configs[s.auths[k].attempt].clientId)})

\* A getAccessToken that stamps the token with the domain as configured
\* instead of the normalized one.
getAccessTokenRawDomain(config, normalizedDomain, response) ==
    [bearerToken |-> [tokenType |-> BEARER_TOKEN_TYPE,
                      expiresIn |-> response.expires_in,
                      accessToken |-> response.access_token,
                      refreshToken |-> response.refresh_token,
                      domain |-> config.domain],
     clientId |-> config.clientId,
     scopes |-> config.scopes]

\* The Token getAccessToken builds from the response (part_005:124-134).
getAccessToken(config, normalizedDomain, response) ==
    [bearerToken |-> [tokenType |-> BEARER_TOKEN_TYPE,
                      expiresIn |-> response.expires_in,
                      accessToken |-> response.access_token,
                      refreshToken |-> response.refresh_token,
                      domain |-> normalizedDomain],
     clientId |-> config.clientId,
     scopes |-> config.scopes]

\* authenticate() returns the Token; authorize() or the onDomain callback
\* (index.ts:131-135) takes it.
AuthenticateReturn(s, k, response) ==
    LET a == s.auths[k].attempt
        result == getAccessToken(s.configs[a], s.auths[k].exchDomain, response)
    IN  ResolveAuthorize(
            [s EXCEPT !.auths[k].pc = "done",
                      !.auths[k].response = response,
                      !.auths[k].result = result],
            a, result)

(***************************************************************************)
(* The callbacks index.ts registers on a Popup, and its timeouts           *)
(***************************************************************************)
\* Whether authorize() call a waits for a popup signal: for a domain
\* (no authenticate() of it is under way) or for the authorization outcome.
AuthsOf(s, a) == { k \in 1..s.nAuth : s.auths[k].attempt = a }
ActivePcs == {"digest", "init", "wait", "poll", "exchange"}
DomainWait(s, a) ==
    /\ s.promises[a].state = "pending"
    /\ s.popups[a].listeners["domain"].fn # "none"
    /\ \A k \in AuthsOf(s, a) : s.auths[k].pc \notin ActivePcs
AuthWait(s, a) ==
    /\ s.promises[a].state = "pending"
    /\ \E k \in AuthsOf(s, a) : s.auths[k].pc = "wait" /\ s.auths[k].popUp = a
InWait(s, a) == DomainWait(s, a) \/ AuthWait(s, a)

\* index.ts:118-125, the timeout of the domain wait of call a.
DomainTimeoutCb(s, a) == Close([s EXCEPT !.open = FALSE], a)

\* index.ts:171-178, the timeout of the authorization wait of invocation k.
AuthTimeoutCb(s, k) == Close([s EXCEPT !.open = FALSE], s.auths[k].popUp)

\* index.ts:127-148, the callback openDomainPopUp(configuration, popUp)
\* registers with onDomain for call a.  It reads the module-level popup.
OnDomainCb(s, a) ==
    LET s1 == ClearTimeout(s, s.domainPopUpTimeout)
        s2 == [s1 EXCEPT !.configs[a].domain = s1.popups[s1.popup].domain]
        s3 == Authenticate(s2, a, s2.popup, "domain")
    IN  [s3 EXCEPT !.auths[s3.nAuth].msgDomain = s.popups[a].domain]

\* index.ts:150-158
DomainAbortedCb(s, a) ==
    Close(ClearTimeout([s EXCEPT !.open = FALSE], s.domainPopUpTimeout), a)

\* An aborted callback that also resolves the wait, as the success callback
\* does.
AuthAbortedResolves(s, k) ==
    LET s1 == Close(ClearTimeout([s EXCEPT !.open = FALSE], s.authTimeout),
                    s.auths[k].popUp)
    IN  IF s1.auths[k].pc = "wait" THEN PollOauthSession(s1, k) ELSE s1

\* index.ts:180-188
AuthAbortedCb(s, k) ==
    Close(ClearTimeout([s EXCEPT !.open = FALSE], s.authTimeout), s.auths[k].popUp)

\* index.ts:190-199, then the reaction to resolve() at index.ts:92-93.
AuthSuccessCb(s, k) ==
    LET s1 == Close(ClearTimeout([s EXCEPT !.open = FALSE], s.authTimeout),
                    s.auths[k].popUp)
    IN  IF s1.auths[k].pc = "wait" THEN PollOauthSession(s1, k) ELSE s1

\* index.ts:201-209
AuthCancelledCb(s, k) ==
    Close(ClearTimeout([s EXCEPT !.open = FALSE], s.authTimeout), s.auths[k].popUp)

\* The n-th callback a host passes to method via: it only notes that it ran.
HostCallbacks == {"hostDomain", "hostAborted", "hostSuccess", "hostCancelled"}
HostCallback(via) ==
    CASE via = "onDomain" -> "hostDomain"
      [] via = "onAborted" -> "hostAborted"
      [] via = "onSuccess" -> "hostSuccess"
      [] via = "onCancelled" -> "hostCancelled"
Probe(via, n) == [fn |-> HostCallback(via), id |-> n]
Invoke(s, cb) == [s EXCEPT !.probes.invoked = Append(@, cb)]

RunCallback(s, cb) ==
    CASE cb.fn = "onDomain" -> OnDomainCb(s, cb.id)
      [] cb.fn \in HostCallbacks -> Invoke(s, cb)
      [] cb.fn = "domainAborted" -> DomainAbortedCb(s, cb.id)
      [] cb.fn = "authAborted" -> AuthAbortedCb(s, cb.id)
      [] cb.fn = "authSuccess" -> AuthSuccessCb(s, cb.id)
      [] cb.fn = "authCancelled" -> AuthCancelledCb(s, cb.id)
      [] OTHER -> s

\* Popup.call(listener) (Popup.ts:97-101)
EVENT_METHOD_CANCELLED == "cancelled"
EVENT_METHOD_SUCCESS == "success"
EVENT_METHOD_DOMAIN == "domain"
EVENT_METHOD_ABORTED == "aborted"
Call(s, p, listener) == RunCallback(s, s.popups[p].listeners[listener])

\* The window messages: the two sentinel strings, {domain: d}, {aborted: true}
\* and any other payload.
Messages ==
    { [type |-> x, domain |-> EmptyDomain] : x \in {"cancelled", "success", "aborted", "other"} }
    \cup { [type |-> "domain", domain |-> d] : d \in MessageDomains }

\* Reading event.data.domain of a null or undefined payload (Popup.ts:66)
\* throws a TypeError nothing catches.
Uncaught(s) == [s EXCEPT !.probes.uncaught = TRUE]

\* The listener attachEventListeners() returns (Popup.ts:56-75), for popup p.
AttachEventListeners(s, p, m) ==
    CASE m.type = "cancelled" -> Call(s, p, EVENT_METHOD_CANCELLED)
      [] m.type = "success" -> Call(s, p, EVENT_METHOD_SUCCESS)
      [] m.type = "domain" -> Call(setDomain(s, p, m.domain), p, EVENT_METHOD_DOMAIN)
      [] m.type = "aborted" -> Call(s, p, EVENT_METHOD_ABORTED)
      [] m.type = "null" -> Uncaught(s)
      [] OTHER -> s

\* History only, noted before the listener of popup p runs: the invocations
\* that wait on popup p have now seen the cancelled or the success message.
NoteMessage(s, p, m) ==
    [s EXCEPT !.auths = [k \in 1..MaxAuth |->
                            IF s.auths[k].popUp = p /\ s.auths[k].pc = "wait"
                            THEN [s.auths[k] EXCEPT
                                     !.cancelSeen = (@ \/ m.type = "cancelled"),
                                     !.successSeen = (@ \/ m.type = "success")]
                            ELSE s.auths[k]]]

\* A message event on the opener window runs every listener that is still
\* registered (Utils.ts:41-46), in the order of registration.
RECURSIVE DispatchMessage(_, _, _)
DispatchMessage(s, m, p) ==
    IF p > s.nCalls THEN s
    ELSE IF s.popups[p].registered
         THEN DispatchMessage(AttachEventListeners(NoteMessage(s, p, m), p, m), m, p + 1)
         ELSE DispatchMessage(s, m, p + 1)

\* The interval callback of the Popup constructor (Popup.ts:47-53), when the
\* window is closed.
IntervalCb(s, p) ==
    LET s1 == [s EXCEPT !.popups[p].interval = FALSE]
        s2 == Call(s1, p, EVENT_METHOD_CANCELLED)
    IN  Call(s2, p, EVENT_METHOD_ABORTED)

(***************************************************************************)
(* authorize() (index.ts:34-73) up to its first suspension                 *)
(***************************************************************************)
\* openDomainPopUp(configuration, popUp) (index.ts:109-160)
OpenDomainPopUp(s, a) ==
    IF ~CanNavigate(s, a)
    THEN RejectAuthorize(NavigateToUrl(s, a, DOMAIN_WINDOW_DEFAULT_URL), a,
                         navigateToUrl(s.popups[a], DOMAIN_WINDOW_DEFAULT_URL).error)
    ELSE LET s1 == NavigateToUrl(s, a, DOMAIN_WINDOW_DEFAULT_URL)
             s2 == SetTimeout([s1 EXCEPT !.domainPopUpTimeout = DomainTimer(a)],
                              DomainTimer(a))
             s3 == onDomain(s2, a, [fn |-> "onDomain", id |-> a])
             s4 == onAborted(s3, a, [fn |-> "domainAborted", id |-> a])
         IN  s4

\* An openPopUp without the check of the handle window.open returns.
openPopUpUnchecked(blocked) ==
    [win |-> IF blocked THEN "none" ELSE "open", error |-> ""]

\* Popup.openPopUp (Popup.ts:77-95): the window handle, or the error thrown
\* when window.open returns null.
openPopUp(blocked) ==
    IF blocked THEN [win |-> "none", error |-> "ERR_AUTH_POPUP_BLOCKED"]
    ELSE [win |-> "open", error |-> ""]

\* authorize(configuration): d is configuration.domain, blocked says whether
\* window.open returns null (Popup.ts:90-92).
AuthorizeCall(s, d, blocked) ==
    LET a == s.nCalls + 1
        s0 == IF s.open THEN Close(s, s.popup) ELSE s
        s1 == [s0 EXCEPT !.nCalls = a,
                         !.configs[a] = [domain |-> d, clientId |-> a,
                                         scopes |-> <<"basic">>, input |-> d],
                         !.promises[a].state = "pending"]
        handle == openPopUp(blocked)
    IN  IF handle.error # ""
        THEN RejectAuthorize(s1, a, handle.error)
        ELSE LET s2 == [s1 EXCEPT !.popups[a] = [NewPopup EXCEPT !.win = handle.win],
                                  !.popup = a, !.open = TRUE]
             IN  IF Falsy(d)
                 THEN OpenDomainPopUp(s2, a)
                 ELSE Authenticate(s2, a, s2.popup, "direct")

(***************************************************************************)
(* refresh() and revoke() (index.ts:75-87)                                 *)
(***************************************************************************)
\* A token the host kept from an earlier session.
SampleToken ==
    [bearerToken |-> [tokenType |-> BEARER_TOKEN_TYPE, expiresIn |-> 3600,
                      accessToken |-> 9, refreshToken |-> 9, domain |-> <<"a">>],
     clientId |-> 9, scopes |-> <<"basic">>]

\* A revoke that also tears the popup down.
revokeClosesPopup(s, tokenInput) ==
    LET s1 == [s EXCEPT !.tokenCall = [op |-> "revoke", input |-> tokenInput],
                        !.open = FALSE]
    IN  IF s1.popup = 0 THEN s1 ELSE Close(s1, s1.popup)

\* refresh(tokenInput): getRefreshToken sends its request (part_005:140-162).
refresh(s, tokenInput) ==
    [s EXCEPT !.tokenCall = [op |-> "refresh", input |-> tokenInput]]

\* revoke(tokenInput): revokeToken sends its request (part_005:180-188).
revoke(s, tokenInput) ==
    [s EXCEPT !.tokenCall = [op |-> "revoke", input |-> tokenInput]]

\* The request of refresh() or revoke() answers or fails; the Token or the
\* error goes to the caller and nothing is kept (part_005:164-177, 189-191).
TokenCallSettles(s) == [s EXCEPT !.tokenCall = NoTokenCall]

(***************************************************************************)
(* Actions: the tasks of the event loop                                    *)
(***************************************************************************)
Authorize ==
    \E d \in ConfigDomains, blocked \in BOOLEAN :
        /\ nCalls < MaxCalls
        /\ (~Falsy(d) /\ ~blocked) => nAuth < MaxAuth
        /\ Becomes(AuthorizeCall(State, d, blocked))

\* crypto.subtle.digest answers: computeAuthorizationUrl goes on to the
\* session call.
DigestDone ==
    \E k \in 1..MaxAuth :
        /\ auths[k].pc = "digest"
        /\ Becomes(InitializeOauthSession(State, k))

\* /api/oauth/create/session answers the request of invocation k.
SessionResponds(k, answer) ==
    LET session == initializeOauthSessionReturn(answer, k)
    IN  /\ auths[k].pc = "init"
        /\ Becomes(IF session.error = ""
                   THEN ComputeAuthorizationUrl(State, k, session.key)
                   ELSE AuthenticateCatch(State, k, "ERR_AUTH_COMPUTE_URL"))

SessionResponse ==
    \E k \in 1..MaxAuth, answer \in SessionAnswers : SessionResponds(k, answer)

\* /api/oauth/poll answers with the code of the session, or fails.
PollResponse ==
    \E k \in 1..MaxAuth, ok \in BOOLEAN :
        /\ auths[k].pc = "poll"
        /\ Becomes(IF ok THEN GetAccessTokenCall(State, k, auths[k].sessionId)
                         ELSE AuthenticateCatch(State, k, "ERR_AUTH_POLL"))

\* /api/oauth/accesstoken answers with the tokens of the code, or fails.
TokenResponse ==
    \E k \in 1..MaxAuth, ok \in BOOLEAN, e \in ExpiresInValues :
        /\ auths[k].pc = "exchange"
        /\ Becomes(IF ok
                   THEN AuthenticateReturn(State, k,
                            [access_token |-> auths[k].code, expires_in |-> e,
                             refresh_token |-> auths[k].code])
                   ELSE AuthenticateCatch(State, k, "ERR_AUTH_ACCESS_TOKEN"))

\* A message event reaches the opener window.  A {domain} message starts one
\* authenticate() per popup that still listens for it.
MessageEvent(m) ==
        /\ \E p \in 1..nCalls : popups[p].registered
        /\ m.type = "domain" =>
              nAuth + Cardinality({ p \in 1..nCalls :
                                      /\ popups[p].registered
                                      /\ popups[p].listeners["domain"].fn # "none" })
                 <= MaxAuth
        /\ Becomes(DispatchMessage(State, m, 1))

Message == \E m \in Messages : MessageEvent(m)

\* The user (or the page shown in it) closes the window of popup p.
UserCloses(p) ==
        /\ p \in 1..nCalls
        /\ popups[p].win = "open"
        /\ Becomes([State EXCEPT !.popups[p].win = "closed"])

UserClose == \E p \in 1..MaxCalls : UserCloses(p)

\* The 100 ms interval of popup p finds the window closed.
IntervalTicks(p) ==
        /\ p \in 1..nCalls
        /\ popups[p].interval
        /\ popups[p].win = "closed"
        /\ Becomes(IntervalCb(State, p))

IntervalTick == \E p \in 1..MaxCalls : IntervalTicks(p)

\* The oldest armed 5-minute timer fires (all timers have the same delay).
TimerFire ==
    /\ Len(timers) > 0
    /\ LET t == Head(timers)
           s == [State EXCEPT !.timers = Tail(@)]
       IN  Becomes(IF t.kind = "domain" THEN DomainTimeoutCb(s, t.id)
                                        ELSE AuthTimeoutCb(s, t.id))

\* The tokens the host can hand to refresh() and revoke().
HeldTokens ==
    {SampleToken}
    \cup { promises[a].token : a \in { b \in 1..MaxCalls : promises[b].state = "resolved" } }

Refresh ==
    \E tokenInput \in HeldTokens :
        /\ tokenCall.op = "none"
        /\ Becomes(refresh(State, tokenInput))

Revoke ==
    \E tokenInput \in HeldTokens :
        /\ tokenCall.op = "none"
        /\ Becomes(revoke(State, tokenInput))

TokenCallResponse ==
    /\ tokenCall.op # "none"
    /\ Becomes(TokenCallSettles(State))

Next ==
    \/ Authorize
    \/ DigestDone
    \/ SessionResponse
    \/ PollResponse
    \/ TokenResponse
    \/ Message
    \/ UserClose
    \/ IntervalTick
    \/ TimerFire

Spec == Init /\ [][Next]_vars

\* The orchestrator together with refresh() and revoke(), for fewer
\* authorize() calls.
MaxCallsWithTokens == 2
AuthorizeFew == nCalls < MaxCallsWithTokens /\ Authorize

NextTokens ==
    \/ AuthorizeFew
    \/ DigestDone
    \/ SessionResponse
    \/ PollResponse
    \/ TokenResponse
    \/ Message
    \/ UserClose
    \/ IntervalTick
    \/ TimerFire
    \/ Refresh
    \/ Revoke
    \/ TokenCallResponse

SpecTokens == Init /\ [][NextTokens]_vars

(***************************************************************************)
(* normalizeDomain on its own: a string is drawn, normalizeDomain is       *)
(* applied to it, and then to its own result.                              *)
(***************************************************************************)
NormalizePieces == 4

Pieces == { HTTP, HTTPS, <<"a">>, <<"/">> }

RECURSIVE Concat(_)
Concat(ps) == IF Len(ps) = 0 THEN EmptyDomain ELSE Head(ps) \o Concat(Tail(ps))

\* The strings made of at most NormalizePieces schemes, letters and slashes.
NormalizeInputs ==
    { Concat(ps) : ps \in UNION { [1..n -> Pieces] : n \in 0..NormalizePieces } }

InitNormalize ==
    /\ InitOrchestrator
    /\ \E d \in NormalizeInputs :
          normalization = [NoNormalization EXCEPT !.input = d]

applyNormalizeDomain(s) ==
    LET n == s.normalization
    IN  [s EXCEPT !.normalization =
            IF n.applied = 0
            THEN [n EXCEPT !.once = normalizeDomain(n.input), !.applied = 1]
            ELSE [n EXCEPT !.twice = normalizeDomain(n.once), !.applied = 2]]

Normalize ==
    /\ normalization.applied < 2
    /\ Becomes(applyNormalizeDomain(State))

NextNormalize == Normalize

SpecNormalize == InitNormalize /\ [][NextNormalize]_vars

(***************************************************************************)
(* The Popup class on its own (Popup.ts): a host constructs one Popup,     *)
(* registers callbacks of its own, and the Popup handles messages, the     *)
(* closing of its window and close().                                      *)
(***************************************************************************)
MaxProbes == 2

\* Every payload a message can carry: those of Messages, and null.
Payloads == Messages \cup { [type |-> "null", domain |-> EmptyDomain] }

\* new Popup(configuration) (Popup.ts:43-54)
PopupConstructor(s, blocked) ==
    LET handle == openPopUp(blocked)
    IN  IF handle.error # ""
        THEN [s EXCEPT !.nCalls = 1]
        ELSE [s EXCEPT !.nCalls = 1,
                       !.popups[1] = [NewPopup EXCEPT !.win = handle.win]]

Construct ==
    \E blocked \in BOOLEAN :
        /\ nCalls = 0
        /\ Becomes(PopupConstructor(State, blocked))

\* popup.onDomain(cb), onAborted(cb), onSuccess(cb) or onCancelled(cb)
RegisterVia(s, p, via, cb) ==
    CASE via = "onDomain" -> onDomain(s, p, cb)
      [] via = "onAborted" -> onAborted(s, p, cb)
      [] via = "onSuccess" -> onSuccess(s, p, cb)
      [] via = "onCancelled" -> onCancelled(s, p, cb)

Registers(via) ==
    LET n == probes.latest[via] + 1
    IN  /\ nCalls = 1
        /\ popups[1].win # "none"
        /\ n <= MaxProbes
        /\ Becomes([RegisterVia(State, 1, via, Probe(via, n))
                       EXCEPT !.probes.latest[via] = n])

Register == \E via \in Methods : Registers(via)

\* The Popup starts to handle an event: so far it ran nothing for it.
StartEvent(s, event) ==
    [s EXCEPT !.probes.event = event, !.probes.invoked = << >>,
              !.probes.uncaught = FALSE]

\* A message with payload m reaches the window the Popup listens on.
PopupMessageEvent(m) ==
    /\ nCalls = 1
    /\ popups[1].registered
    /\ Becomes(DispatchMessage(StartEvent(State, m.type), m, 1))

PopupMessage == \E m \in Payloads : PopupMessageEvent(m)

\* The 100 ms interval of the Popup finds its window closed.
PopupIntervalTick ==
    /\ nCalls = 1
    /\ popups[1].interval
    /\ popups[1].win = "closed"
    /\ Becomes(IntervalCb(StartEvent(State, "closed"), 1))

\* The host calls popup.close().
PopupClose ==
    /\ nCalls = 1
    /\ popups[1].win # "none"
    /\ Becomes(Close(State, 1))

NextPopup ==
    \/ Construct
    \/ Register
    \/ PopupMessage
    \/ UserClose
    \/ PopupIntervalTick
    \/ PopupClose

SpecPopup == Init /\ [][NextPopup]_vars

(***************************************************************************)
(* Notions the properties below are stated with                            *)
(***************************************************************************)
Settled(a) == promises[a].state \in {"resolved", "rejected"}
OpenPopups == { p \in 1..MaxCalls : popups[p].win = "open" }

\* The error codes of AuthenticatorError that authorize() can end with.
TypedErrorCodes ==
    {"ERR_AUTH_POPUP_BLOCKED", "ERR_AUTH_POPUP_CLOSED", "ERR_AUTH_SESSION",
     "ERR_AUTH", "ERR_AUTH_NO_TOKEN"}

\* Something is left that can still settle the promise of call a: one of its
\* authenticate() invocations awaits the digest or a network answer, or waits
\* with its success callback registered on a listening popup, or the
\* onDomain callback of the call is registered on a listening popup.
CanStillSettle(s, a) ==
    \/ \E k \in AuthsOf(s, a) : s.auths[k].pc \in {"digest", "init", "poll", "exchange"}
    \/ \E k \in AuthsOf(s, a) :
          /\ s.auths[k].pc = "wait"
          /\ s.popups[s.auths[k].popUp].registered
          /\ s.popups[s.auths[k].popUp].listeners["success"] = [fn |-> "authSuccess", id |-> k]
    \/ \E p \in 1..s.nCalls :
          /\ s.popups[p].registered
          /\ s.popups[p].listeners["domain"] = [fn |-> "onDomain", id |-> a]

\* A pending promise that nothing can settle any more stays pending for ever.
PendingForEver ==
    [][\A a \in 1..MaxCalls :
          (promises[a].state = "pending" /\ ~CanStillSettle(State, a))
          => (promises'[a].state = "pending" /\ ~CanStillSettle(State', a))]_vars

\* No scheme prefix and no trailing slash.
IsNormalized(d) ==
    /\ ~StartsWith(d, HTTP)
    /\ ~StartsWith(d, HTTPS)
    /\ (Len(d) > 0 => d[Len(d)] # "/")

(***************************************************************************)
(* C1: at most one popup window opened by authorize() is open at any time. *)
(***************************************************************************)
C1_AtMostOnePopupOpen == Cardinality(OpenPopups) <= 1

(***************************************************************************)
(* C2: when the closed-window poll detects that the user closed the popup  *)
(* while authorize() waits for a domain or for the authorization outcome,  *)
(* the promise of that call is rejected, at the latest eventually: the     *)
(* step of the poll leaves it rejected or leaves something that can still  *)
(* settle it.                                                              *)
(***************************************************************************)
C2_UserCloseRejects ==
    [][\A a \in 1..MaxCalls :
          (IntervalTicks(a) /\ InWait(State, a))
          => \/ promises'[a].state = "rejected"
             \/ CanStillSettle(State', a)]_vars

(***************************************************************************)
(* C3: when the 5-minute timer of a wait fires and neither a message nor a *)
(* close of the popup came before it, the promise of the call is rejected  *)
(* (with a timed-out error), at the latest eventually: the step of the     *)
(* timer leaves it rejected or leaves something that can still settle it.  *)
(***************************************************************************)
WaitTimedOut(a) ==
    /\ TimerFire
    /\ promises[a].state = "pending"
    /\ popups[a].win = "open"
    /\ popups[a].domain = EmptyDomain \/ ~Falsy(configs[a].input)
    /\ \/ Head(timers) = DomainTimer(a) /\ DomainWait(State, a)
       \/ \E k \in AuthsOf(State, a) :
             /\ Head(timers) = AuthTimer(k)
             /\ auths[k].pc = "wait"
             /\ auths[k].popUp = a
             /\ ~auths[k].cancelSeen

C3_TimeoutRejects ==
    [][\A a \in 1..MaxCalls :
          WaitTimedOut(a)
          => \/ promises'[a].state = "rejected"
             \/ CanStillSettle(State', a)]_vars

(***************************************************************************)
(* C4: with a domain configured, once the cancelled message has arrived    *)
(* during the authorization wait, authorize() rejects: its promise is      *)
(* rejected, or is pending with something left that can still settle it.   *)
(***************************************************************************)
C4_CancelledRejects ==
    \A k \in 1..MaxAuth :
        (auths[k].via = "direct" /\ auths[k].cancelSeen)
        => \/ promises[auths[k].attempt].state = "rejected"
           \/ /\ promises[auths[k].attempt].state = "pending"
              /\ CanStillSettle(State, auths[k].attempt)

(***************************************************************************)
(* C5: with a domain configured, when the token exchange of the call has   *)
(* answered, authorize() has resolved to the Token made of the answer's    *)
(* fields, token type Bearer, the normalized configured domain and the     *)
(* configuration's clientId and scopes.                                    *)
(***************************************************************************)
C5_DirectFlowToken ==
    \A k \in 1..MaxAuth :
        (auths[k].via = "direct" /\ auths[k].pc = "done")
        => LET a == auths[k].attempt
               tk == promises[a].token
           IN  /\ promises[a].state = "resolved"
               /\ tk.bearerToken.tokenType = "Bearer"
               /\ tk.bearerToken.expiresIn = auths[k].response.expires_in
               /\ tk.bearerToken.accessToken = auths[k].response.access_token
               /\ tk.bearerToken.refreshToken = auths[k].response.refresh_token
               /\ tk.bearerToken.domain = normalizeDomain(configs[a].input)
               /\ IsNormalized(tk.bearerToken.domain)
               /\ tk.clientId = configs[a].clientId
               /\ tk.scopes = configs[a].scopes

C5_Witness ==
    \E k \in 1..MaxAuth :
        /\ auths[k].via = "direct"
        /\ auths[k].pc = "done"
        /\ promises[auths[k].attempt].state = "resolved"

(***************************************************************************)
(* C6: when an authorize() call has ended (its promise is settled) and it  *)
(* had opened a popup, the interval of that popup is cleared, its message  *)
(* listener is unregistered and its window is closed.                      *)
(***************************************************************************)
C6_ResourcesReleased ==
    \A a \in 1..MaxCalls :
        (Settled(a) /\ popups[a].win # "none")
        => /\ popups[a].win = "closed"
           /\ ~popups[a].interval
           /\ ~popups[a].registered

(***************************************************************************)
(* C7: a rejected authorize() promise carries a typed error with a code.   *)
(***************************************************************************)
C7_TypedRejection ==
    \A a \in 1..MaxCalls :
        promises[a].state = "rejected" => promises[a].code \in TypedErrorCodes

(***************************************************************************)
(* C8: an invocation whose authorization wait has seen the cancelled       *)
(* message (before any success message) issues no poll and no token        *)
(* exchange.                                                               *)
(***************************************************************************)
C8_NoPollAfterCancel ==
    \A k \in 1..MaxAuth :
        (auths[k].cancelSeen /\ auths[k].popUp = auths[k].attempt)
        => /\ auths[k].pc \notin {"poll", "exchange", "done"}
           /\ auths[k].pollDomain = undefined
           /\ auths[k].exchDomain = undefined

(***************************************************************************)
(* C9: a call with an empty domain shows the domain-selection page and     *)
(* issues no session call before a domain message; the authentication      *)
(* started by a message {domain: d} uses d for its session call, its       *)
(* authorization URL, its poll and its token exchange.                     *)
(***************************************************************************)
UsesDomain(used, d) == used = undefined \/ used = normalizeDomain(d)

C9_DomainFlowUsesDomain ==
    /\ \A a \in 1..MaxCalls :
          (promises[a].state # "none" /\ Falsy(configs[a].input)
             /\ popups[a].win # "none" /\ popups[a].domain = EmptyDomain)
          => /\ popups[a].location = DOMAIN_WINDOW_DEFAULT_URL
             /\ AuthsOf(State, a) = {}
    /\ \A k \in 1..MaxAuth :
          (auths[k].via = "domain" /\ auths[k].popUp = auths[k].attempt)
          => /\ UsesDomain(auths[k].initDomain, auths[k].msgDomain)
             /\ UsesDomain(auths[k].urlDomain, auths[k].msgDomain)
             /\ UsesDomain(auths[k].pollDomain, auths[k].msgDomain)
             /\ UsesDomain(auths[k].exchDomain, auths[k].msgDomain)

(***************************************************************************)
(* C10: the session poll of an invocation is issued only after the success *)
(* message reached its popup during its wait, and while the poll is in     *)
(* flight the invocation no longer waits for a popup signal: its callbacks *)
(* are no longer registered.                                               *)
(***************************************************************************)
StillRegistered(k) ==
    \E n \in ListenerNames : popups[auths[k].popUp].listeners[n].id = k
                             /\ popups[auths[k].popUp].listeners[n].fn
                                   \in {"authAborted", "authSuccess", "authCancelled"}

C10_PollOnlyAfterSuccess ==
    \A k \in 1..MaxAuth :
        (auths[k].pc \in {"poll", "exchange", "done"} \/ auths[k].pollDomain # undefined)
        => /\ auths[k].successSeen
           /\ auths[k].pc = "poll" => ~StillRegistered(k)

C10_Witness == \E k \in 1..MaxAuth : auths[k].pc = "poll" /\ auths[k].successSeen

(***************************************************************************)
(* C11: the code verifier of an invocation appears in nothing that is sent *)
(* out (session request, authorization URL, poll request, message posted   *)
(* to the popup) except the token-exchange request.                        *)
(***************************************************************************)
Verifiers == { getRandomString(j) : j \in 1..MaxAuth }

C11_VerifierOnlyInExchange ==
    \A k \in 1..MaxAuth : \A i \in 1..Len(auths[k].sent) :
        auths[k].sent[i].to # "accesstoken"
        => auths[k].sent[i].fields \cap Verifiers = {}

C11_Witness ==
    \E k \in 1..MaxAuth :
        /\ Len(auths[k].sent) = 4
        /\ auths[k].sent[4].to = "accesstoken"
        /\ auths[k].codeVerifier \in auths[k].sent[4].fields
        /\ auths[k].sent[2].to = "authorize"
        /\ auths[k].codeChallenge \in auths[k].sent[2].fields

(***************************************************************************)
(* C12: within one authorize() call at most one network call (session      *)
(* creation, poll, token exchange) is in flight at any time.               *)
(***************************************************************************)
NetworkPcs == {"init", "poll", "exchange"}
InFlight(a) == { k \in AuthsOf(State, a) : auths[k].pc \in NetworkPcs }

C12_OneCallInFlight == \A a \in 1..MaxCalls : Cardinality(InFlight(a)) <= 1

(***************************************************************************)
(* C13: at most one terminal handler (success, cancelled, aborted,         *)
(* timeout) of an authorize() call takes effect.  In particular, once the  *)
(* success handler of a call has run (its poll was started), no timeout    *)
(* handler of that call runs any more.                                     *)
(***************************************************************************)
SuccessHandled(a) ==
    \E k \in AuthsOf(State, a) : auths[k].pc \in {"poll", "exchange", "done"}
TimerOwner(t) == IF t.kind = "domain" THEN t.id ELSE auths[t.id].attempt

C13_OneTerminalHandler ==
    [][~(TimerFire /\ SuccessHandled(TimerOwner(Head(timers))))]_vars

(***************************************************************************)
(* C14: an authorize() call whose popup the browser blocked (window.open   *)
(* returned null) is rejected with the popup-blocked error; nothing was    *)
(* navigated, no timer armed and no authentication (hence no network call) *)
(* started for it.                                                         *)
(***************************************************************************)
Blocked(a) == promises[a].state # "none" /\ popups[a].win = "none"

C14_PopupBlocked ==
    \A a \in 1..MaxCalls :
        Blocked(a)
        => /\ promises[a].state = "rejected"
           /\ promises[a].code = "ERR_AUTH_POPUP_BLOCKED"
           /\ popups[a] = NoPopup
           /\ AuthsOf(State, a) = {}
           /\ \A i \in 1..Len(timers) : TimerOwner(timers[i]) # a

C14_Witness ==
    \E a \in 1..MaxCalls :
        Blocked(a) /\ promises[a].code = "ERR_AUTH_POPUP_BLOCKED"

(***************************************************************************)
(* C15: navigateToUrl(url) on a popup whose window handle is missing or    *)
(* closed fails with the popup-closed error and changes no location; on an *)
(* open handle it replaces the location and does not fail.  So an          *)
(* authentication that failed on navigating left its popup closed and not  *)
(* on its authorization URL.                                               *)
(***************************************************************************)
SampleUrls ==
    {DOMAIN_WINDOW_DEFAULT_URL}
    \cup { [page |-> "authorize", domain |-> <<"b">>, session_id |-> k] : k \in 1..MaxAuth }

C15_NavigateToUrl ==
    /\ \A p \in 1..MaxCalls : \A url \in SampleUrls :
          LET r == navigateToUrl(popups[p], url)
          IN  IF popups[p].win = "open"
              THEN r.error = "" /\ r.popUp = [popups[p] EXCEPT !.location = url]
              ELSE r.error = "ERR_AUTH_POPUP_CLOSED" /\ r.popUp = popups[p]
    /\ \A k \in 1..MaxAuth :
          auths[k].cause = "ERR_AUTH_POPUP_CLOSED"
          => /\ popups[auths[k].popUp].win = "closed"
             /\ popups[auths[k].popUp].location.session_id # k

C15_Witness ==
    /\ \E k \in 1..MaxAuth : auths[k].cause = "ERR_AUTH_POPUP_CLOSED"
    /\ \E k \in 1..MaxAuth :
          /\ auths[k].pc = "wait"
          /\ popups[auths[k].popUp].location.session_id = k

(***************************************************************************)
(* C16: Popup.close() is idempotent.  In every state, calling close() on a *)
(* popup leaves no callback, no running poll, no registered listener and   *)
(* no open window, and calling it once more changes nothing, whether the   *)
(* window was closed by close() or by the user.                            *)
(***************************************************************************)
TimerPopup(t) == IF t.kind = "domain" THEN t.id ELSE auths[t.id].popUp

C16_CloseIdempotent ==
    \A p \in 1..MaxCalls :
        LET once == Close(State, p)
        IN  /\ Close(once, p) = once
            /\ once.popups[p].listeners = NoListeners
            /\ ~once.popups[p].interval
            /\ ~once.popups[p].registered
            /\ once.popups[p].win # "open"
            /\ \A q \in 1..MaxCalls \ {p} : once.popups[q] = popups[q]

\* close() has been called on a popup and a timer that will call it again is
\* armed, while the user has closed another popup that close() has not seen.
C16_Witness ==
    /\ \E p \in 1..MaxCalls :
          /\ popups[p].win = "closed"
          /\ ~popups[p].registered
          /\ \E i \in 1..Len(timers) : TimerPopup(timers[i]) = p
    /\ \E q \in 1..MaxCalls : popups[q].win = "closed" /\ popups[q].registered

(***************************************************************************)
(* C17: refresh() and revoke() leave the popup state alone: a step of      *)
(* either (its call and its completion) changes neither the open flag, nor *)
(* the module-level popup, nor a timer, nor any Popup object (window,      *)
(* location, callbacks, listener, poll), nor any authorize() promise or    *)
(* authentication under way.                                               *)
(***************************************************************************)
PopupState ==
    <<POPUP_STATE, popup, domainPopUpTimeout, authTimeout, timers, popups,
      promises, auths, configs, token>>

C17_TokenCallsFrame ==
    [][(Refresh \/ Revoke \/ TokenCallResponse) => UNCHANGED PopupState]_vars

\* A revoke() is under way while an authorize() call is
\* pending with its popup open.
C17_Witness ==
    /\ tokenCall.op = "revoke"
    /\ \E a \in 1..MaxCalls :
          /\ promises[a].state = "pending"
          /\ popups[a].win = "open"
          /\ popups[a].listeners["success"].fn = "authSuccess"
          /\ POPUP_STATE

(***************************************************************************)
(* C18: the outcome of an authorize() call depends on its own attempt      *)
(* only, not on what earlier calls left behind.  A message posted by a     *)
(* popup belongs to one attempt, so one message moves the authentication   *)
(* or the promise of at most one authorize() call.                         *)
(***************************************************************************)
Advanced(a) ==
    \/ promises'[a] # promises[a]
    \/ \E k \in 1..MaxAuth : auths'[k].attempt = a /\ auths'[k].pc # auths[k].pc

C18_OwnEventsOnly ==
    [][\A m \in Messages :
          MessageEvent(m) => Cardinality({ a \in 1..MaxCalls : Advanced(a) }) <= 1]_vars

(***************************************************************************)
(* C19: normalizeDomain is idempotent.  As stated, for every input string: *)
(* normalizeDomain(normalizeDomain(d)) = normalizeDomain(d), repeated      *)
(* scheme prefixes included.                                               *)
(***************************************************************************)
C19_IdempotentEveryInput ==
    normalization.applied = 2 => normalization.twice = normalization.once

HasScheme(d) == StartsWith(d, HTTP) \/ StartsWith(d, HTTPS)

\* The input carries at most one leading scheme prefix.
AtMostOneScheme(d) == ~HasScheme(StripScheme(d))

(***************************************************************************)
(* C19, amended: normalizeDomain is idempotent on every input that carries *)
(* at most one leading http:// or https:// prefix, whatever the number of  *)
(* its trailing slashes; the result is then normalized.                    *)
(***************************************************************************)
C19_IdempotentOneScheme ==
    (normalization.applied = 2 /\ AtMostOneScheme(normalization.input))
    => /\ normalization.twice = normalization.once
       /\ IsNormalized(normalization.once)

\* "https://a//" was normalized twice, both times to "a".
C19_Witness ==
    /\ normalization.applied = 2
    /\ normalization.input = HTTPS \o <<"a", "/", "/">>
    /\ normalization.once = <<"a">>
    /\ normalization.twice = <<"a">>

(***************************************************************************)
(* C20: whenever a token exchange is attempted, the domain of the          *)
(* configuration it is made for is non-empty and normalized: the request   *)
(* is addressed to a host, without a scheme prefix or a trailing slash,    *)
(* whether the domain was configured by the caller or posted by the popup. *)
(***************************************************************************)
ExchangeAttempted(k) ==
    \E i \in 1..Len(auths[k].sent) : auths[k].sent[i].to = "accesstoken"

C20_ExchangeDomain ==
    \A k \in 1..MaxAuth :
        ExchangeAttempted(k)
        => /\ auths[k].exchDomain # EmptyDomain
           /\ IsNormalized(auths[k].exchDomain)

\* The callbacks the Popup ran for the event it handled last.
Invoked(s) == { s.probes.invoked[i] : i \in 1..Len(s.probes.invoked) }
\* The callback the host passed last to method via, if it passed one.
Latest(via) ==
    IF probes.latest[via] = 0 THEN {} ELSE { Probe(via, probes.latest[via]) }

(***************************************************************************)
(* C21: when the interval of a Popup finds the window closed, the Popup    *)
(* runs the callback registered with onCancelled and the callback          *)
(* registered with onAborted, and stops the interval, so that the closure  *)
(* is signalled once.                                                      *)
(***************************************************************************)
C21_ClosureSignalsBoth ==
    [][PopupIntervalTick
       => /\ Latest("onCancelled") \subseteq Invoked(State')
          /\ Latest("onAborted") \subseteq Invoked(State')
          /\ ~popups'[1].interval]_vars

\* The registration method whose callback a message of each type is for.
MethodOf(type) ==
    CASE type = "cancelled" -> "onCancelled"
      [] type = "success" -> "onSuccess"
      [] type = "domain" -> "onDomain"
      [] type = "aborted" -> "onAborted"

Recognised == { m \in Payloads : m.type \in {"cancelled", "success", "domain", "aborted"} }

(***************************************************************************)
(* C22: the message listener of a Popup runs, for each recognised message, *)
(* the callback registered through the matching method: onCancelled for    *)
(* the cancelled sentinel, onSuccess for the success sentinel, onDomain    *)
(* for an object with a domain (which it records first), onAborted for an  *)
(* object with a truthy aborted field.                                     *)
(***************************************************************************)
C22_MessageDispatch ==
    [][\A m \in Recognised :
          PopupMessageEvent(m)
          => /\ Latest(MethodOf(m.type)) \subseteq Invoked(State')
             /\ m.type = "domain" => popups'[1].domain = m.domain]_vars

(***************************************************************************)
(* C23: a message whose payload is none of the four recognised shapes      *)
(* (another string, a number, null or undefined, an object without domain  *)
(* or aborted) is ignored: the Popup runs no callback, changes nothing and *)
(* raises no error.                                                        *)
(***************************************************************************)
C23_OtherPayloadsIgnored ==
    [][\A m \in Payloads \ Recognised :
          PopupMessageEvent(m)
          => /\ popups' = popups
             /\ Invoked(State') = {}
             /\ ~probes'.uncaught]_vars

(***************************************************************************)
(* C24: each signal holds at most one callback, the one registered last    *)
(* for it.  For a message the Popup runs at most one callback, for a       *)
(* closure at most one per signal, and every callback it runs is the one   *)
(* passed last to its registration method, never an earlier one; an        *)
(* aborted message runs the callback passed last to onAborted.             *)
(***************************************************************************)
C24_LastRegistrationOnly ==
    [][/\ (PopupMessage \/ PopupIntervalTick)
          => /\ Invoked(State') \subseteq UNION { Latest(via) : via \in Methods }
             /\ Len(probes'.invoked) = Cardinality(Invoked(State'))
       /\ PopupMessage => Len(probes'.invoked) <= 1
       /\ \A m \in Payloads :
             (m.type = "aborted" /\ PopupMessageEvent(m))
             => Latest("onAborted") \subseteq Invoked(State')]_vars

\* onAborted was called twice, and an aborted message ran the second
\* callback only.
C24_Witness ==
    /\ probes.latest["onAborted"] = 2
    /\ probes.event = "aborted"
    /\ probes.invoked = << Probe("onAborted", 2) >>

(***************************************************************************)
(* C25: in the domain flow, when the authentication started by a domain    *)
(* message fails with the URL-computation (session) error, the domain of   *)
(* the configuration is cleared; when it fails with any other error, the   *)
(* domain is left as it is and the pending call is rejected.               *)
(***************************************************************************)
C25_DomainFlowFailure ==
    [][\A k \in 1..MaxAuth :
          (auths[k].via = "domain" /\ auths[k].pc # "failed"
             /\ auths'[k].pc = "failed")
          => LET a == auths[k].attempt
             IN  IF auths'[k].cause = "ERR_AUTH_COMPUTE_URL"
                 THEN /\ configs'[a].domain = undefined
                      /\ promises'[a] = promises[a]
                 ELSE /\ configs'[a].domain = configs[a].domain
                      /\ promises[a].state = "pending"
                            => promises'[a].state = "rejected"]_vars

\* One call saw both: an authentication of it failed on its session call
\* and cleared the domain, and a later one, started by a new domain message,
\* failed on its poll, which rejected the call and left the new domain set.
C25_Witness ==
    \E k1, k2 \in 1..MaxAuth :
        /\ auths[k1].via = "domain" /\ auths[k2].via = "domain"
        /\ auths[k1].attempt = auths[k2].attempt
        /\ auths[k1].cause = "ERR_AUTH_COMPUTE_URL"
        /\ auths[k2].cause = "ERR_AUTH_POLL"
        /\ configs[auths[k2].attempt].domain \in MessageDomains
        /\ promises[auths[k2].attempt].state = "rejected"

(***************************************************************************)
(* C26: authorize() sets the module-level open flag in the synchronous     *)
(* step in which it creates its popup, before its first suspension, so     *)
(* that an authorize() that runs while the popup of an earlier call is     *)
(* still open observes the flag as true.                                   *)
(***************************************************************************)
C26_FlagSetWithPopup ==
    [][Authorize
       => /\ popups'[nCalls'].win = "open" => (POPUP_STATE' /\ popup' = nCalls')
          /\ (\E p \in 1..nCalls : popups[p].win = "open") => POPUP_STATE]_vars

(***************************************************************************)
(* C27: a failure in the exchanging phase, after the success signal (the   *)
(* session poll fails or the token exchange fails), makes the pending      *)
(* authorize() call reject with the generic error ERR_AUTH, and no token   *)
(* is returned.                                                            *)
(***************************************************************************)
ExchangingFailures == {"ERR_AUTH_POLL", "ERR_AUTH_ACCESS_TOKEN"}

C27_ExchangeFailureRejects ==
    [][\A k \in 1..MaxAuth :
          (auths[k].pc \in {"wait", "poll", "exchange"} /\ auths'[k].pc = "failed"
             /\ auths'[k].cause \in ExchangingFailures
             /\ promises[auths[k].attempt].state = "pending")
          => /\ promises'[auths[k].attempt].state = "rejected"
             /\ promises'[auths[k].attempt].code = "ERR_AUTH"
             /\ promises'[auths[k].attempt].token = NoToken]_vars

\* The requests of a kind invocation k has sent.
SentTo(s, k, to) ==
    { s.auths[k].sent[i] : i \in { j \in 1..Len(s.auths[k].sent) : s.auths[k].sent[j].to = to } }

(***************************************************************************)
(* C28: when session initialization fails (a non-2xx answer, or a body     *)
(* without a session key), computeAuthorizationUrl fails with the          *)
(* URL-computation error and the popup is not navigated to an              *)
(* authorization URL for that attempt.                                     *)
(***************************************************************************)
C28_SessionFailure ==
    [][\A k \in 1..MaxAuth : \A answer \in SessionAnswers \ {"key"} :
          SessionResponds(k, answer)
          => /\ auths'[k].pc = "failed"
             /\ auths'[k].cause = "ERR_AUTH_COMPUTE_URL"
             /\ SentTo(State', k, "authorize") = {}
             /\ popups'[auths[k].popUp].location = popups[auths[k].popUp].location]_vars

(***************************************************************************)
(* C29: whenever computeAuthorizationUrl succeeded, the authorization URL  *)
(* carries a session_id parameter whose value is the non-empty session key *)
(* session initialization returned, and the poll is made with the same     *)
(* value.                                                                  *)
(***************************************************************************)
C29_SessionIdInUrl ==
    \A k \in 1..MaxAuth :
        /\ \A url \in SentTo(State, k, "authorize") :
              /\ Term("session_id", auths[k].sessionId) \in url.fields
              /\ auths[k].sessionId # 0
        /\ \A poll \in SentTo(State, k, "poll") :
              poll.fields = { Term("session_id", auths[k].sessionId) }

Armed(timer) == \E i \in 1..Len(timers) : timers[i] = timer

(***************************************************************************)
(* C30: whenever the orchestrator waits for a popup signal, a 5-minute     *)
(* timer for that wait is armed: in the domain wait, also when it waits    *)
(* for a new domain after a failed session initialization, and in the      *)
(* authorization wait.                                                     *)
(***************************************************************************)
C30_WaitHasTimer ==
    /\ \A a \in 1..MaxCalls :
          DomainWait(State, a) => Armed(DomainTimer(a))
    /\ \A k \in 1..MaxAuth :
          (auths[k].pc = "wait" /\ StillRegistered(k)
             /\ promises[auths[k].attempt].state = "pending")
          => Armed(AuthTimer(k))

\* Call a prompts for a domain again: an authentication of it failed on its
\* session initialization, which cleared the domain, and none is under way.
Reprompts(a) ==
    /\ configs[a].domain = undefined
    /\ DomainWait(State, a)
    /\ \E k \in AuthsOf(State, a) : auths[k].cause = "ERR_AUTH_COMPUTE_URL"

(***************************************************************************)
(* C31: in the domain flow, the failure of the session initialization for  *)
(* a posted domain leaves the popup open, its domain callback registered   *)
(* and authorize() pending; a later domain message then starts a new       *)
(* authentication of the call with the domain of that message (from which  *)
(* authorize() can resolve).                                               *)
(***************************************************************************)
C31_DomainRetry ==
    [][/\ \A k \in 1..MaxAuth :
             (auths[k].via = "domain" /\ auths[k].pc # "failed"
                /\ auths'[k].pc = "failed"
                /\ auths'[k].cause = "ERR_AUTH_COMPUTE_URL")
             => LET a == auths[k].attempt
                IN  /\ popups'[a].win = popups[a].win
                    /\ popups'[a].registered = popups[a].registered
                    /\ popups'[a].listeners = popups[a].listeners
                    /\ promises'[a] = promises[a]
       /\ \A m \in Messages : \A a \in 1..MaxCalls :
             (m.type = "domain" /\ MessageEvent(m)
                /\ Reprompts(a) /\ popups[a].registered)
             => /\ configs'[a].domain = m.domain
                /\ \E k \in 1..MaxAuth :
                      /\ auths[k].pc = "unused"
                      /\ auths'[k].attempt = a
                      /\ auths'[k].pc = "digest"
                      /\ auths'[k].popUp = a]_vars

(***************************************************************************)
(* C32: whenever a popup window opened by authorize() is open, the flag    *)
(* POPUP_STATE.open is true: no timer or completion handler of an earlier  *)
(* attempt has set it to false under the popup of a later one.             *)
(***************************************************************************)
C32_OpenPopupHasFlag ==
    \A p \in 1..MaxCalls : popups[p].win = "open" => POPUP_STATE

(***************************************************************************)
(* C33: when authorize() calls overlap, each call that resolves returns    *)
(* the token its own token exchange produced, never the token another call *)
(* wrote to the module-level token variable.                               *)
(***************************************************************************)
C33_OwnToken ==
    \A a \in 1..MaxCalls :
        promises[a].state = "resolved"
        => /\ \E k \in AuthsOf(State, a) :
                 /\ auths[k].pc = "done"
                 /\ promises[a].token = auths[k].result
           /\ promises[a].token.clientId = configs[a].clientId

\* A call resolved with its own token after a call made later had resolved
\* and written its token to the module-level variable.
C33_Witness ==
    \E a, b \in 1..MaxCalls :
        /\ a < b
        /\ promises[a].state = "resolved" /\ promises[b].state = "resolved"
        /\ promises[a].token # promises[b].token
        /\ token = promises[a].token

\* close() has been called on the Popup: its message listener is removed.
ClosedByHost == nCalls = 1 /\ popups[1].win # "none" /\ ~popups[1].registered

(***************************************************************************)
(* C34: after close() has been called on a Popup, no later message and no  *)
(* later tick of the closed-window interval is handled by it, and none of  *)
(* the callbacks registered on it is run again.                            *)
(***************************************************************************)
C34_NothingAfterClose ==
    [][ClosedByHost
       => /\ ~PopupMessage
          /\ ~PopupIntervalTick
          /\ probes'.invoked = probes.invoked
          /\ probes'.event = probes.event
          /\ ~popups'[1].registered]_vars

\* close() was called on a Popup that held a callback for every signal and
\* had run one of them for the message before.
C34_Witness ==
    /\ ClosedByHost
    /\ \A via \in Methods : probes.latest[via] > 0
    /\ popups[1].win = "closed"
    /\ popups[1].listeners = NoListeners
    /\ probes.event = "success"
    /\ probes.invoked # << >>

\* An authorize() call force-closes the open popup of call a, which waits
\* for a signal of that popup.
ForceCloses(a) ==
    /\ Authorize
    /\ POPUP_STATE
    /\ popup = a
    /\ popups[a].win = "open"
    /\ InWait(State, a)

(***************************************************************************)
(* C35: when a second authorize() force-closes the popup of a call that    *)
(* still waits for a popup signal, the promise of that call is settled, at *)
(* the latest eventually: the step leaves it settled or leaves something   *)
(* that can still settle it.                                               *)
(***************************************************************************)
C35_ForceClosedSettles ==
    [][\A a \in 1..MaxCalls :
          ForceCloses(a)
          => \/ promises'[a].state \in {"resolved", "rejected"}
             \/ CanStillSettle(State', a)]_vars

\* The session call of invocation k returns while the window of its popup is
\* closed and the interval of the popup has not seen it yet: the user closed
\* the window while the call was in flight (close() stops the interval).
ReturnsAfterUserClose(k) ==
    /\ \E answer \in {"key", "noKey"} : SessionResponds(k, answer)
    /\ popups[auths[k].popUp].win = "closed"
    /\ popups[auths[k].popUp].interval
    /\ promises[auths[k].attempt].state = "pending"

(***************************************************************************)
(* C36: when the user closed the popup while the session call of an        *)
(* attempt was in flight, the closure is not lost: once the call returns,  *)
(* the attempt does not wait for a popup signal and authorize() rejects.   *)
(***************************************************************************)
C36_ClosureNotLost ==
    [][\A k \in 1..MaxAuth :
          ReturnsAfterUserClose(k)
          => /\ auths'[k].pc = "failed"
             /\ promises'[auths[k].attempt].state = "rejected"]_vars

====
